---- MODULE Spec2Model ----
(***************************************************************************)
(* State-machine model of the youtube-backend request handlers:            *)
(*   - user controller (src/unnamed/part_001): register, login, logout,    *)
(*     refresh-token rotation, change-password, update-profile, channel    *)
(*     profile;                                                            *)
(*   - subscription controller (src/unnamed/part_002): toggleSubscription; *)
(*   - tweet controller (src/unnamed/part_000): create, list, update,      *)
(*     delete.  src/src/controllers/tweet.controller.js repeats part_000   *)
(*     at its lines 197-392 after another copy of the controller, and      *)
(*     declares every import and handler twice: the file does not load,   *)
(*     so part_000 is the tweet controller modelled.                       *)
(* A handler awaits each store call and each upload, and between two        *)
(* awaits of one request the steps of other requests can run.  A handler   *)
(* with several awaits is therefore one action per await, acting on a      *)
(* request slot of `reqs` that holds what the handler has read so far; a   *)
(* handler with one await is one action.  In SpecToken, SpecSub,           *)
(* SpecProfile, SpecTweet, SpecFeed, SpecUser and SpecAccount requests     *)
(* arrive one after the other (one slot is used); in SpecToggleRace,       *)
(* SpecRefreshRace and SpecDeleteRace the requests in flight interleave.   *)
(* `resp` holds the last request answered and the response given to it.    *)
(***************************************************************************)
EXTENDS Integers, Sequences, FiniteSets, TLC

VARIABLES
    users,      \* identity store: user id -> user document
    issued,     \* the refresh tokens the server has signed so far
    expired,    \* the issued tokens whose expiry has passed
    tokenSeq,   \* number of token pairs issued
    subs,       \* subscription collection: set of edge documents
    subSeq,     \* number of subscription documents created
    tweets,     \* tweet collection: set of tweet documents
    tweetSeq,   \* number of tweet documents created
    likes,      \* like collection: set of edge documents (read only here)
    schema,     \* what the model schemas (not in the sources) enforce
    resp,       \* the last request and the handler's response to it
    prev,       \* the toggle request and response just before the last
                \* toggle request, if there was one
    reqs        \* the requests in flight: for each, where its handler
                \* stands and what it has read

vars == <<users, issued, expired, tokenSeq, subs, subSeq, tweets, tweetSeq,
          likes, schema, resp, prev, reqs>>

\* The state the token handlers do not touch.
notTokenVars == <<subs, subSeq, tweets, tweetSeq, likes, schema, prev>>

\* The state the subscription handlers do not touch.
notSubVars == <<users, issued, expired, tokenSeq, tweets, tweetSeq, likes,
                schema>>

\* The state the tweet handlers do not touch.
notTweetVars == <<users, issued, expired, tokenSeq, subs, subSeq, likes,
                  schema, prev>>

(***************************************************************************)
(* Bounds of the model.                                                    *)
(***************************************************************************)
\* Token pairs issued in one behaviour (login and refresh stop after this).
MaxIssued == 3

\* The user ids of the identity store.
UserIds == {1, 2}

(***************************************************************************)
(* Values.                                                                 *)
(***************************************************************************)
\* JavaScript's undefined / a missing field, for strings.
Absent == "<absent>"

\* JavaScript's !value for a string or undefined.
Falsy(c) == c = Absent \/ c = ""

\* A signed token: its subject, a serial standing for the signed bytes, and
\* which secret signed it.  NoToken is the missing value (undefined / unset),
\* ForgedToken a token whose signature does not verify.
NoToken == [sub |-> 0, n |-> 0, kind |-> "none"]
ForgedToken == [sub |-> 1, n |-> 0, kind |-> "forged"]

UserName(u) == IF u = 1 THEN "ada" ELSE "bob"
UserEmail(u) == IF u = 1 THEN "ada@x.com" ELSE "bob@x.com"
UserPassword(u) == IF u = 1 THEN "secret1" ELSE "secret2"

NoUser == [present |-> FALSE, fullName |-> Absent, username |-> Absent,
           email |-> Absent, password |-> Absent, refreshToken |-> NoToken,
           avatar |-> Absent, coverImage |-> Absent]

\* The url uploadOnCloudinary gives the avatar of a register request, and
\* the url it gives a file uploaded later.
RegisteredUrl == "url0"
UploadedUrl == "url1"

\* The user document User.create stores: no refresh token yet, the url of
\* the uploaded avatar, and "" for a cover image that was not sent.
UserDoc(fullName, username, email, password) ==
    [present |-> TRUE, fullName |-> fullName, username |-> username,
     email |-> email, password |-> password, refreshToken |-> NoToken,
     avatar |-> RegisteredUrl, coverImage |-> ""]

\* An identity store holding the registered users ada and bob.
RegisteredUsers ==
    [u \in UserIds |->
        UserDoc("Name", UserName(u), UserEmail(u), UserPassword(u))]

\* The model files (models/*.model.js) are not among the sources.  A schema
\* may declare Tweet.content required and put unique indexes on
\* User.username and User.email, or not: both are modelled.
StrictSchema == [contentRequired |-> TRUE, uniqueUsers |-> TRUE]
LaxSchema == [contentRequired |-> FALSE, uniqueUsers |-> FALSE]
Schemas == {StrictSchema, LaxSchema}

\* String.prototype.trim on the strings of the requests.
Trim(c) == CASE c = "   " -> ""
             [] c = " hi " -> "hi"
             [] OTHER -> c

\* String.prototype.toLowerCase on the usernames of the requests.
ToLower(name) == CASE name = "Ada" -> "ada"
                   [] name = "Bob" -> "bob"
                   [] OTHER -> name

\* The response of a handler that has not run yet.
NoResp == [op |-> "none", status |-> 0, msg |-> "", user |-> 0,
           presented |-> NoToken, accessToken |-> NoToken,
           refreshToken |-> NoToken, cookie |-> NoToken]

(***************************************************************************)
(* Requests in flight.  Each action of a handler with several store calls  *)
(* is one request's step from one await to the next.                       *)
(***************************************************************************)
\* Requests in flight at one time.
MaxRequests == 2

ReqIds == 1 .. MaxRequests

\* The slot used where requests arrive one after the other.
Serial == CHOOSE r \in ReqIds : \A q \in ReqIds : r <= q

\* A request slot: where the handler stands (idle, or the await it has
\* passed), which handler it is, whose request it is and for what target,
\* the document id its read returned (0 for null), the serial of the token
\* pair it has signed (0 for none), and the strings it holds: inputs of the
\* request and values of the document it has read.
IdleRequest == [pc |-> "idle", op |-> "none", actor |-> 0, target |-> 0,
                seen |-> 0, made |-> 0, args |-> <<>>]

\* No request in flight, and no two requests have overlapped yet.  `raced`
\* holds the (actor, target) pairs for which a request has read while
\* another request of the same handler for the same pair had read and not
\* yet written.
NoRequests == [slot |-> [r \in ReqIds |-> IdleRequest], raced |-> {}]

\* No request is in flight.
Quiet == \A r \in ReqIds : reqs.slot[r].pc = "idle"

\* The request has passed a store call that wrote: user.save() of a login
\* (part_001 line 19) or User.create of a register (line 79).
HasWritten(q) == q.pc \in {"saved", "created"}

\* The other requests of handler op that have read for (actor, target) and
\* not yet written.
Racing(r, op, actor, target) ==
    {q \in ReqIds \ {r} : /\ reqs.slot[q].pc # "idle"
                           /\ ~HasWritten(reqs.slot[q])
                           /\ reqs.slot[q].op = op
                           /\ reqs.slot[q].actor = actor
                           /\ reqs.slot[q].target = target}

\* Request r of handler op has read for (actor, target), seen the document
\* id `seen`, and holds the strings args.
AfterRead(r, op, actor, target, seen, args) ==
    [slot |-> [reqs.slot EXCEPT ![r] = [pc |-> "found", op |-> op,
                                        actor |-> actor, target |-> target,
                                        seen |-> seen, made |-> 0,
                                        args |-> args]],
     raced |-> IF Racing(r, op, actor, target) # {}
               THEN reqs.raced \cup {<<actor, target>>} ELSE reqs.raced]

\* Request r of handler op has entered its handler and is parked at the
\* first await, one that reads nothing of the store (an upload); it holds
\* the strings args.
AfterArrival(r, op, actor, args) ==
    [reqs EXCEPT !.slot[r] = [pc |-> "arrived", op |-> op, actor |-> actor,
                              target |-> 0, seen |-> 0, made |-> 0,
                              args |-> args]]

\* Request r has passed the next await of its handler.
AfterAwait(r, pc) == [reqs EXCEPT !.slot[r].pc = pc]

\* Request r has been answered.
AfterAnswer(r) == [reqs EXCEPT !.slot[r] = IdleRequest]

\* Request r stands at pc in handler op.
At(r, op, pc) == reqs.slot[r].op = op /\ reqs.slot[r].pc = pc

\* Request r arrives (its slot is free).
Arrives(r) == reqs.slot[r].pc = "idle"

(***************************************************************************)
(* Token service (user model methods and jsonwebtoken).                    *)
(***************************************************************************)
\* user.generateAccessToken(): a fresh signed access token for the user.
\* (The user model is not among the sources; the spec's "issues a fresh
\* pair" is modelled by the serial n, new on every issue.)
generateAccessToken(uid, n) == [sub |-> uid, n |-> n, kind |-> "access"]

\* user.generateRefreshToken(): a fresh signed refresh token for the user.
generateRefreshToken(uid, n) == [sub |-> uid, n |-> n, kind |-> "refresh"]

\* jwt.verify(token, REFRESH_TOKEN_SECRET): the token was signed with the
\* refresh secret (it is one of the refresh tokens the server issued, kept in
\* `issued`) and has not expired.
jwtVerify(t) == t \in issued /\ t.kind = "refresh" /\ t \notin expired

\* User.findById(id): the document, or NoUser (null).
findById(us, id) == IF id \in DOMAIN us /\ us[id].present THEN us[id] ELSE NoUser

\* A faulty save that keeps the stored refresh token when that one was
\* generated later than the one to save (mutation of SaveRefreshToken).
SaveRefreshToken_NewestWins(us, uid, rt) ==
    IF us[uid].refreshToken.n > rt.n
    THEN us ELSE [us EXCEPT ![uid].refreshToken = rt]

\* A faulty save that keeps a refresh token already stored (mutation of
\* SaveRefreshToken).
SaveRefreshToken_KeepFirst(us, uid, rt) ==
    IF us[uid].refreshToken = NoToken
    THEN [us EXCEPT ![uid].refreshToken = rt] ELSE us

\* user.refreshToken = refreshToken; user.save()  (part_001 lines 18-19)
SaveRefreshToken(us, uid, rt) == [us EXCEPT ![uid].refreshToken = rt]

\* The pair generateAccessAndRefereshTokens returns  (part_001 line 21).
TokenPair(uid, n) == [accessToken |-> generateAccessToken(uid, n),
                      refreshToken |-> generateRefreshToken(uid, n)]

\* A faulty comparison that accepts every verified refresh token (mutation
\* of TokenMatchesStored).
TokenMatchesStored_AnyOfUser(incoming, user) == incoming.kind = "refresh"

\* incomingRefreshToken !== user?.refreshToken, negated  (part_001 line 226)
TokenMatchesStored(incoming, user) == incoming = user.refreshToken

\* const {accessToken, newRefreshToken} = await generateAccessAndRefereshTokens(..)
\* (part_001 line 236): the returned object has no key newRefreshToken, so
\* the destructured newRefreshToken is undefined.
DestructureNewRefreshToken(pair) == NoToken

\* A faulty logout that leaves the stored refresh token (mutation of
\* UnsetRefreshToken).
UnsetRefreshToken_Noop(us, uid) == us

\* $unset: {refreshToken: 1}  (part_001 lines 171-181)
UnsetRefreshToken(us, uid) ==
    IF uid \in DOMAIN us /\ us[uid].present
    THEN [us EXCEPT ![uid].refreshToken = NoToken] ELSE us

\* User.findOne({$or: [{username}, {email}]}): the first matching document in
\* natural (insertion) order, or 0 for null.  An undefined value matches none.
findOneByUsernameOrEmail(us, username, email) ==
    LET hits == {u \in DOMAIN us : us[u].present
                    /\ (   (username # Absent /\ us[u].username = username)
                        \/ (email # Absent /\ us[u].email = email))}
    IN IF hits = {} THEN 0 ELSE CHOOSE u \in hits : \A v \in hits : u <= v

\* user.isPasswordCorrect(password): bcrypt.compare against the hash of the
\* document the handler holds.
isPasswordCorrect(storedPassword, password) == password = storedPassword

\* A faulty check that lets every password through (mutation of
\* InvalidCredentials).
InvalidCredentials_Never(storedPassword, password) == FALSE

\* const isPasswordValid = await user.isPasswordCorrect(password)
\* if (!isPasswordValid) { throw 401 }  (part_001 lines 130-134)
InvalidCredentials(storedPassword, password) ==
    ~isPasswordCorrect(storedPassword, password)

(***************************************************************************)
(* Handlers of the user controller: login, logout, refresh.                *)
(***************************************************************************)
\* The refresh tokens a client can present: those the server has issued, a
\* forged one, or none at all.
Presentable == issued \cup {ForgedToken, NoToken}

LoginNames == {Absent, "", "ada", "bob", "zed"}
LoginEmails == {Absent, "", "ada@x.com"}
LoginPasswords == {"secret1", "secret2", "wrong"}

TokenResp(op, status, msg, uid, presented, at, rt, cookie) ==
    [op |-> op, status |-> status, msg |-> msg, user |-> uid,
     presented |-> presented, accessToken |-> at, refreshToken |-> rt,
     cookie |-> cookie]

\* The status of the answer when generateAccessAndRefereshTokens throws its
\* ApiError(500)  (part_001 lines 23-25): loginUser lets it pass (line 137
\* is in no try block), refreshAccessToken catches it and throws
\* ApiError(401) with the same message  (lines 250-252).
GenerateFailureStatus(op) == IF op = "refresh" THEN 401 ELSE 500

\* The refresh token the request of slot r presented: the one of its
\* subject with the serial the slot holds as target  (refresh requests
\* only; a login presents none).
PresentedBy(r) ==
    IF reqs.slot[r].op = "refresh"
    THEN generateRefreshToken(reqs.slot[r].actor, reqs.slot[r].target)
    ELSE NoToken

\* generateAccessAndRefereshTokens up to the signing: await User.findById,
\* then the two tokens are signed  (part_001 lines 13-15).  With no such
\* user the method call on null throws, and the catch of line 23 throws
\* ApiError(500), which the refresh handler turns into 401.
SignTokens(r) ==
    /\ UNCHANGED <<users, expired>>
    /\ UNCHANGED notTokenVars
    /\ IF findById(users, reqs.slot[r].actor).present
       THEN /\ tokenSeq < MaxIssued
            /\ tokenSeq' = tokenSeq + 1
            /\ issued' = issued \cup
                   {generateRefreshToken(reqs.slot[r].actor, tokenSeq + 1)}
            /\ reqs' = [reqs EXCEPT !.slot[r].pc = "made",
                                    !.slot[r].made = tokenSeq + 1]
            /\ UNCHANGED resp
       ELSE /\ resp' = TokenResp(reqs.slot[r].op,
                                 GenerateFailureStatus(reqs.slot[r].op),
                                 "Something went wrong while generating referesh and access token",
                                 reqs.slot[r].actor, PresentedBy(r), NoToken,
                                 NoToken, NoToken)
            /\ reqs' = AfterAnswer(r)
            /\ UNCHANGED <<issued, tokenSeq>>

\* A login request arrives: the test of the identifiers and await
\* User.findOne  (part_001 lines 110-127).  The slot holds the password of
\* the request and the hash of the document found.
LoginFind(r, username, email, password) ==
    /\ Arrives(r)
    /\ UNCHANGED <<users, issued, expired, tokenSeq>>
    /\ UNCHANGED notTokenVars
    /\ LET uid == findOneByUsernameOrEmail(users, username, email)
           Reject(status, message) ==
               /\ resp' = TokenResp("login", status, message, 0, NoToken,
                                    NoToken, NoToken, NoToken)
               /\ UNCHANGED reqs
       IN
       IF Falsy(username) /\ Falsy(email)
       THEN Reject(400, "username or email is required")
       ELSE IF uid = 0
       THEN Reject(404, "User does not exist")
       ELSE /\ reqs' = AfterRead(r, "login", uid, 0, uid,
                                 <<password, users[uid].password>>)
            /\ UNCHANGED resp

\* await user.isPasswordCorrect(password), and the 401 when it is false
\* (part_001 lines 130-134).
LoginPassword(r) ==
    /\ At(r, "login", "found")
    /\ UNCHANGED <<users, issued, expired, tokenSeq>>
    /\ UNCHANGED notTokenVars
    /\ IF InvalidCredentials(reqs.slot[r].args[2], reqs.slot[r].args[1])
       THEN /\ resp' = TokenResp("login", 401, "Invalid user credentials",
                                 reqs.slot[r].actor, NoToken, NoToken,
                                 NoToken, NoToken)
            /\ reqs' = AfterAnswer(r)
       ELSE /\ reqs' = AfterAwait(r, "checked")
            /\ UNCHANGED resp

\* generateAccessAndRefereshTokens(user._id) of line 137, up to the signing.
LoginGenerate(r) ==
    /\ At(r, "login", "checked")
    /\ SignTokens(r)

\* user.refreshToken = refreshToken; await user.save()  (part_001 lines
\* 18-19).
LoginSave(r) ==
    /\ At(r, "login", "made")
    /\ users' = SaveRefreshToken(users, reqs.slot[r].actor,
                                 TokenPair(reqs.slot[r].actor,
                                           reqs.slot[r].made).refreshToken)
    /\ reqs' = AfterAwait(r, "saved")
    /\ UNCHANGED <<issued, expired, tokenSeq, resp>>
    /\ UNCHANGED notTokenVars

\* await User.findById(user._id).select(..), and the response with the
\* pair in the cookies and the body  (part_001 lines 140-161).
LoginAnswer(r) ==
    /\ At(r, "login", "saved")
    /\ LET pair == TokenPair(reqs.slot[r].actor, reqs.slot[r].made)
       IN resp' = TokenResp("login", 200, "User logged In Successfully",
                            reqs.slot[r].actor, NoToken, pair.accessToken,
                            pair.refreshToken, pair.refreshToken)
    /\ reqs' = AfterAnswer(r)
    /\ UNCHANGED <<users, issued, expired, tokenSeq>>
    /\ UNCHANGED notTokenVars

\* logoutUser  (part_001 lines 165-194), one store call; req.user is the
\* authenticated user.
logoutUser(uid) ==
    /\ users' = UnsetRefreshToken(users, uid)
    /\ resp' = TokenResp("logout", 200, "User logged Out", uid,
                         NoToken, NoToken, NoToken, NoToken)
    /\ UNCHANGED <<issued, expired, tokenSeq, reqs>>
    /\ UNCHANGED notTokenVars

\* A refresh request arrives: jwt.verify, await User.findById, and the
\* comparison with the stored token  (part_001 lines 206-228).  A slot's
\* actor is the subject of the presented token and its target the token's
\* serial.
RefreshCheck(r, incoming) ==
    /\ Arrives(r)
    /\ UNCHANGED <<users, issued, expired, tokenSeq>>
    /\ UNCHANGED notTokenVars
    /\ LET user == findById(users, incoming.sub)
           Reject(message, uid) ==
               /\ resp' = TokenResp("refresh", 401, message, uid, incoming,
                                    NoToken, NoToken, NoToken)
               /\ UNCHANGED reqs
       IN
       IF incoming = NoToken THEN Reject("unauthorized request", 0)
       ELSE IF ~jwtVerify(incoming) THEN Reject("jwt error", 0)
       ELSE IF ~user.present THEN Reject("Invalid refresh token", 0)
       ELSE IF ~TokenMatchesStored(incoming, user)
       THEN Reject("Refresh token is expired or used", incoming.sub)
       ELSE /\ reqs' = AfterRead(r, "refresh", incoming.sub, incoming.n,
                                 incoming.sub, <<>>)
            /\ UNCHANGED resp

\* generateAccessAndRefereshTokens(user._id) of line 236, up to the signing.
RefreshGenerate(r) ==
    /\ At(r, "refresh", "found")
    /\ SignTokens(r)

\* user.refreshToken = refreshToken; await user.save(); the handler then
\* answers  (part_001 lines 18-21 and 236-249).
RefreshSave(r) ==
    /\ At(r, "refresh", "made")
    /\ LET uid == reqs.slot[r].actor
           pair == TokenPair(uid, reqs.slot[r].made)
           newRefreshToken == DestructureNewRefreshToken(pair)
       IN /\ users' = SaveRefreshToken(users, uid, pair.refreshToken)
          /\ resp' = TokenResp("refresh", 200, "Access token refreshed", uid,
                               PresentedBy(r),
                               pair.accessToken, newRefreshToken,
                               newRefreshToken)
    /\ reqs' = AfterAnswer(r)
    /\ UNCHANGED <<issued, expired, tokenSeq>>
    /\ UNCHANGED notTokenVars

\* Time passes and an issued token reaches its expiry (jwt.verify then throws
\* TokenExpiredError).
TokenExpires(t) ==
    /\ t \in issued /\ t \notin expired
    /\ expired' = expired \cup {t}
    /\ UNCHANGED <<users, issued, tokenSeq, resp, reqs>>
    /\ UNCHANGED notTokenVars

InitToken ==
    /\ users = RegisteredUsers
    /\ issued = {}
    /\ expired = {}
    /\ tokenSeq = 0
    /\ resp = NoResp
    /\ subs = {}
    /\ subSeq = 0
    /\ tweets = {}
    /\ tweetSeq = 0
    /\ likes = {}
    /\ schema = StrictSchema
    /\ prev = NoResp
    /\ reqs = NoRequests

\* Requests arrive one after the other: all steps are of the one slot, and
\* a logout arrives when no request is in flight.
NextToken ==
    \/ \E n \in LoginNames, e \in LoginEmails, p \in LoginPasswords :
          LoginFind(Serial, n, e, p)
    \/ LoginPassword(Serial)
    \/ LoginGenerate(Serial)
    \/ LoginSave(Serial)
    \/ LoginAnswer(Serial)
    \/ \E u \in UserIds : Quiet /\ logoutUser(u)
    \/ \E t \in Presentable : RefreshCheck(Serial, t)
    \/ RefreshGenerate(Serial)
    \/ RefreshSave(Serial)
    \/ \E t \in issued : TokenExpires(t)

SpecToken == InitToken /\ [][NextToken]_vars

(***************************************************************************)
(* Claims about the token service, checked under SpecToken.                *)
(***************************************************************************)
\* The refresh handler would accept token t in the current state.
AcceptedByRefresh(t) ==
    /\ t # NoToken
    /\ jwtVerify(t)
    /\ findById(users, t.sub).present
    /\ TokenMatchesStored(t, findById(users, t.sub))

NothingIssued ==
    /\ users' = users /\ issued' = issued /\ tokenSeq' = tokenSeq
    /\ resp'.accessToken = NoToken /\ resp'.refreshToken = NoToken
    /\ resp'.cookie = NoToken

\* C1: a refresh request whose token verifies and whose subject exists, but
\* whose value differs from the refresh token persisted on that user (none
\* persisted included), fails with 401, issues no pair and leaves the
\* persisted refresh token unchanged: the request is answered at once and
\* no later step of it remains.
C1_MismatchUnauthorized ==
    [][\A t \in Presentable :
          (/\ RefreshCheck(Serial, t)
           /\ jwtVerify(t)
           /\ findById(users, t.sub).present
           /\ t # users[t.sub].refreshToken)
          => (/\ resp'.op = "refresh" /\ resp'.status = 401
              /\ resp'.presented = t
              /\ NothingIssued
              /\ reqs' = reqs)]_vars

C1_Witness ==
    /\ resp.op = "refresh" /\ resp.status = 401
    /\ resp.msg = "Refresh token is expired or used"
    /\ jwtVerify(resp.presented)
    /\ users[resp.presented.sub].present
    /\ users[resp.presented.sub].refreshToken # resp.presented

\* C2: after a successful refresh request the refresh token of the response
\* (body and cookie) is present and is the value now persisted on the user.
C2_ResponseCarriesPersistedToken ==
    (resp.op = "refresh" /\ resp.status = 200)
    => (/\ resp.refreshToken # NoToken
        /\ resp.cookie # NoToken
        /\ resp.refreshToken = users[resp.user].refreshToken
        /\ resp.cookie = users[resp.user].refreshToken)

\* C3: in every state reached by login, refresh and logout requests handled
\* one after the other, at most one refresh token per user is accepted by
\* refresh, and once a newer pair has been issued for a user (by login or
\* refresh) a refresh request presenting an earlier token of that user is
\* rejected with 401.
C3_SingleActiveRefreshToken ==
    /\ [](\A u \in UserIds :
            Cardinality({t \in issued : t.sub = u /\ AcceptedByRefresh(t)}) <= 1)
    /\ [][\A t \in issued :
            (/\ RefreshCheck(Serial, t)
             /\ \E newer \in issued : newer.sub = t.sub /\ newer.n > t.n)
            => (resp'.status = 401 /\ resp'.presented = t
                /\ NothingIssued /\ reqs' = reqs)]_vars

C3_Witness ==
    /\ resp.op = "refresh" /\ resp.status = 401
    /\ resp.presented \in issued /\ resp.presented \notin expired
    /\ AcceptedByRefresh(users[resp.presented.sub].refreshToken)
    /\ users[resp.presented.sub].refreshToken.n > resp.presented.n

\* C4: logout of a user clears that user's persisted refresh token and leaves
\* the other users' records unchanged; while it is cleared every refresh
\* request with a token of that user fails with 401, and only the save of a
\* login of that user sets it again.
C4_LogoutRevokes ==
    [][/\ \A u \in UserIds :
            logoutUser(u)
            => (/\ users'[u].refreshToken = NoToken
                /\ \A v \in UserIds \ {u} : users'[v] = users[v])
       /\ \A t \in issued :
            (RefreshCheck(Serial, t) /\ users[t.sub].refreshToken = NoToken)
            => (resp'.status = 401 /\ resp'.presented = t
                /\ NothingIssued /\ reqs' = reqs)
       /\ \A u \in UserIds :
            (users[u].refreshToken = NoToken /\ users'[u].refreshToken # NoToken)
            => (/\ LoginSave(Serial)
                /\ reqs.slot[Serial].actor = u)]_vars

C4_Witness ==
    /\ resp.op = "refresh" /\ resp.status = 401
    /\ resp.presented \in issued /\ jwtVerify(resp.presented)
    /\ users[resp.presented.sub].refreshToken = NoToken

\* C11: a login request that identifies an existing user (the user findOne
\* returns for the username or email) with a password that does not match
\* fails with 401, issues and returns no token, and leaves the user records
\* unchanged, so that every issued refresh token is accepted by refresh
\* after the request exactly when it was before; the request has written
\* nothing between its arrival and the answer.
C11_WrongPasswordUnauthorized ==
    [][/\ (Arrives(Serial) /\ reqs'.slot[Serial].op = "login")
          => (/\ users' = users /\ issued' = issued /\ resp' = resp
              /\ reqs'.slot[Serial].pc = "found"
              /\ reqs'.slot[Serial].args[2]
                    = users[reqs'.slot[Serial].actor].password)
       /\ (/\ LoginPassword(Serial)
           /\ reqs.slot[Serial].args[1]
                 # users[reqs.slot[Serial].actor].password)
          => (/\ resp'.op = "login" /\ resp'.status = 401
              /\ resp'.user = reqs.slot[Serial].actor
              /\ reqs'.slot[Serial].pc = "idle"
              /\ NothingIssued
              /\ expired' = expired
              /\ \A t \in issued :
                    (/\ t \notin expired'
                     /\ findById(users', t.sub).present
                     /\ TokenMatchesStored(t, findById(users', t.sub)))
                    <=> AcceptedByRefresh(t))]_vars

\* A login with a wrong password was rejected while the user it names holds
\* a refresh token that refresh accepts.
C11_Witness ==
    /\ resp.op = "login" /\ resp.status = 401 /\ resp.user \in UserIds
    /\ AcceptedByRefresh(users[resp.user].refreshToken)

(***************************************************************************)
(* Subscription controller (src/unnamed/part_002).                         *)
(***************************************************************************)
\* Subscription documents created in one behaviour.
MaxSubs == 3

\* The channel ids a request can name: the users, and a well-formed id that
\* names no user.
ChannelIds == UserIds \cup {3}

\* A path parameter that is not a well-formed ObjectId.
MalformedId == -1

\* null, as a subscription document.
NoEdge == [id |-> 0, subscriber |-> 0, channel |-> 0]

\* if (!isValidObjectId) { throw 400 }: the test is of the imported function,
\* not of channelId, so it never throws  (part_002 lines 10-12).
InvalidChannelIdRejected(channelId) == FALSE

\* The edges of one (subscriber, channel) pair.
EdgesOf(S, subscriber, channel) ==
    {e \in S : e.subscriber = subscriber /\ e.channel = channel}

\* A faulty lookup that never finds the edge (mutation of
\* findOneSubscription).
findOneSubscription_NeverFinds(S, subscriber, channel) == NoEdge

\* Subscription.findOne({subscriber, channel}): the first matching document
\* in insertion order, or NoEdge  (part_002 lines 14-17).
findOneSubscription(S, subscriber, channel) ==
    LET hits == EdgesOf(S, subscriber, channel)
    IN IF hits = {} THEN NoEdge
       ELSE CHOOSE e \in hits : \A f \in hits : e.id <= f.id

\* A faulty delete that removes every edge of the edge's subscriber (mutation
\* of findByIdAndDelete).
findByIdAndDelete_AllOfSubscriber(S, id) ==
    {e \in S : \A d \in S : d.id = id => e.subscriber # d.subscriber}

\* Subscription.findByIdAndDelete(id)  (part_002 line 20)
findByIdAndDelete(S, id) == {e \in S : e.id # id}

\* Subscription.create({subscriber, channel})  (part_002 lines 27-30)
SubscriptionCreate(S, id, subscriber, channel) ==
    S \cup {[id |-> id, subscriber |-> subscriber, channel |-> channel]}

\* new ApiResponse(statusCode, data, message = "Success"), with the request
\* and the collection as it was before the handler's write.  A document
\* payload is in data, a string payload in text.
SubResp(actor, channelId, status, data, text, message, before) ==
    [op |-> "toggle", actor |-> actor, channel |-> channelId,
     status |-> status, success |-> status < 400, data |-> data,
     text |-> text, message |-> message, before |-> before]

\* The toggle answered before the one being answered, if the last request
\* answered was a toggle.
LastToggle == IF resp.op = "toggle" THEN resp ELSE NoResp

\* A toggle request arrives and awaits Subscription.findOne  (part_002
\* lines 8-17); req.user is the authenticated user.  A malformed channelId
\* makes Subscription.findOne reject with a CastError, which asyncHandler
\* passes to next().
ToggleFind(r, actor, channelId) ==
    /\ Arrives(r)
    /\ UNCHANGED notSubVars
    /\ UNCHANGED <<subs, subSeq>>
    /\ IF InvalidChannelIdRejected(channelId)
       THEN /\ resp' = SubResp(actor, channelId, 400, NoEdge, "",
                               "Invalid Channel id..", subs)
            /\ prev' = LastToggle
            /\ UNCHANGED reqs
       ELSE IF channelId = MalformedId
       THEN /\ resp' = SubResp(actor, channelId, 500, NoEdge, "",
                               "CastError", subs)
            /\ prev' = LastToggle
            /\ UNCHANGED reqs
       ELSE /\ reqs' = AfterRead(r, "toggle", actor, channelId,
                                 findOneSubscription(subs, actor, channelId).id,
                                 <<>>)
            /\ UNCHANGED <<resp, prev>>

\* The request goes on from what findOne returned: it awaits
\* findByIdAndDelete and answers, or awaits Subscription.create and answers
\* (part_002 lines 19-38).
ToggleWrite(r) ==
    /\ At(r, "toggle", "found")
    /\ UNCHANGED notSubVars
    /\ reqs' = AfterAnswer(r)
    /\ prev' = LastToggle
    /\ LET actor == reqs.slot[r].actor
           channelId == reqs.slot[r].target
       IN
       IF reqs.slot[r].seen # 0
       THEN /\ subs' = findByIdAndDelete(subs, reqs.slot[r].seen)
            /\ resp' = SubResp(actor, channelId, 200, NoEdge,
                               "Unscribed from channerl", "Success", subs)
            /\ UNCHANGED subSeq
       ELSE /\ subSeq < MaxSubs
            /\ subs' = SubscriptionCreate(subs, subSeq + 1, actor, channelId)
            /\ subSeq' = subSeq + 1
            /\ resp' = SubResp(actor, channelId, 200,
                               [id |-> subSeq + 1, subscriber |-> actor,
                                channel |-> channelId],
                               "", "Successfully subscribed to channel", subs)

InitSub ==
    /\ users = RegisteredUsers
    /\ issued = {}
    /\ expired = {}
    /\ tokenSeq = 0
    /\ subs = {}
    /\ subSeq = 0
    /\ tweets = {}
    /\ tweetSeq = 0
    /\ likes = {}
    /\ schema = StrictSchema
    /\ resp = NoResp
    /\ prev = NoResp
    /\ reqs = NoRequests

\* Toggle requests arrive one after the other.
NextSub ==
    \/ \E actor \in UserIds, channelId \in ChannelIds \cup {MalformedId} :
          ToggleFind(Serial, actor, channelId)
    \/ ToggleWrite(Serial)

SpecSub == InitSub /\ [][NextSub]_vars

(***************************************************************************)
(* Claims about the subscription toggle, checked under SpecSub.            *)
(***************************************************************************)
\* The last two requests were successful toggles of the same pair.
TwoTogglesOfOnePair ==
    /\ resp.op = "toggle" /\ prev.op = "toggle"
    /\ resp.status = 200 /\ prev.status = 200
    /\ resp.actor = prev.actor /\ resp.channel = prev.channel

\* The edges of all pairs other than (subscriber, channel).
OtherEdges(S, subscriber, channel) == S \ EdgesOf(S, subscriber, channel)

\* C5: two toggle-subscription calls for one (subscriber, channel) pair, one
\* after the other, starting with zero or one edge for the pair, restore the
\* pair's edge existence (passing through the opposite state) and leave the
\* edges of every other pair unchanged.
C5_ToggleInvolution ==
    (/\ TwoTogglesOfOnePair
     /\ Cardinality(EdgesOf(prev.before, prev.actor, prev.channel)) <= 1)
    => (/\ (EdgesOf(subs, resp.actor, resp.channel) = {})
             <=> (EdgesOf(prev.before, resp.actor, resp.channel) = {})
        /\ (EdgesOf(resp.before, resp.actor, resp.channel) = {})
             <=> (EdgesOf(prev.before, resp.actor, resp.channel) # {})
        /\ Cardinality(EdgesOf(subs, resp.actor, resp.channel)) <= 1
        /\ OtherEdges(subs, resp.actor, resp.channel)
             = OtherEdges(prev.before, resp.actor, resp.channel))

\* Present -> Absent -> Present, with an edge of another pair stored.
C5_Witness ==
    /\ TwoTogglesOfOnePair
    /\ Cardinality(EdgesOf(prev.before, prev.actor, prev.channel)) = 1
    /\ EdgesOf(resp.before, resp.actor, resp.channel) = {}
    /\ OtherEdges(subs, resp.actor, resp.channel) # {}

\* The last two requests were toggles of one pair that started without an
\* edge, the first of them successful.
SubscribeThenToggle ==
    /\ resp.op = "toggle" /\ prev.op = "toggle"
    /\ resp.actor = prev.actor /\ resp.channel = prev.channel
    /\ prev.status = 200
    /\ EdgesOf(prev.before, prev.actor, prev.channel) = {}

\* The first toggle created the edge and answered with it; the second
\* deleted it and answered with success.
CreatedThenDeleted ==
    /\ prev.success /\ resp.success
    /\ prev.data.subscriber = prev.actor /\ prev.data.channel = prev.channel
    /\ EdgesOf(resp.before, resp.actor, resp.channel) = {prev.data}
    /\ EdgesOf(subs, resp.actor, resp.channel) = {}

\* C16: of two sequential toggle-subscription calls for one (subscriber,
\* channel) pair starting from no edge, the first creates the edge and
\* answers success with the created edge as data and a message that reports
\* the subscription; the second deletes the edge and answers success with a
\* message field that reports the unsubscription and differs from the
\* first's.
C16_ToggleMessages ==
    SubscribeThenToggle
    => /\ CreatedThenDeleted
       /\ prev.message = "Successfully subscribed to channel"
       /\ resp.message = "Unscribed from channerl"
       /\ resp.message # prev.message

(***************************************************************************)
(* Channel profile (src/unnamed/part_001 lines 399-478): a read of the     *)
(* identity store and the subscription collection.                         *)
(***************************************************************************)
\* The username path parameter of a profile request.
ProfileNames == {"   ", "ada", "Ada", "bob", "zed"}

\* $match: {username: username?.toLowerCase()}: the matching user documents,
\* of which channel[0] is the first in insertion order; 0 when none matches.
MatchUsername(us, username) ==
    LET hits == {u \in DOMAIN us : us[u].present
                    /\ us[u].username = ToLower(username)}
    IN IF hits = {} THEN 0 ELSE CHOOSE u \in hits : \A v \in hits : u <= v

\* $lookup from subscriptions, localField _id, foreignField channel.
Subscribers(S, uid) == {e \in S : e.channel = uid}

\* $lookup from subscriptions, localField _id, foreignField subscriber.
SubscribedTo(S, uid) == {e \in S : e.subscriber = uid}

\* A faulty flag that is true whenever the channel has a subscriber
\* (mutation of IsSubscribed).
IsSubscribed_AnySubscriber(S, viewer, uid) == Subscribers(S, uid) # {}

\* $in: [req.user?._id, "$subscribers.subscriber"]  (part_001 line 448)
IsSubscribed(S, viewer, uid) ==
    viewer \in {e.subscriber : e \in Subscribers(S, uid)}

\* null, as a channel view.
NoChannel == [id |-> 0, username |-> Absent, subscribersCount |-> 0,
              channelsSubscribedToCount |-> 0, isSubscribed |-> FALSE]

\* The $addFields and $project stages for the matched user.
ChannelView(us, S, viewer, uid) ==
    [id |-> uid, username |-> us[uid].username,
     subscribersCount |-> Cardinality(Subscribers(S, uid)),
     channelsSubscribedToCount |-> Cardinality(SubscribedTo(S, uid)),
     isSubscribed |-> IsSubscribed(S, viewer, uid)]

\* The profile request and the response to it.
ProfileResp(viewer, username, status, message, data) ==
    [op |-> "profile", actor |-> viewer, username |-> username,
     status |-> status, success |-> status < 400, message |-> message,
     data |-> data]

\* getUserChannelProfile  (part_001 lines 399-478), one store call (the
\* aggregation); req.user is the authenticated viewer.
getUserChannelProfile(viewer, username) ==
    /\ UNCHANGED notSubVars
    /\ UNCHANGED <<subs, subSeq, prev, reqs>>
    /\ LET uid == MatchUsername(users, username)
       IN
       IF Trim(username) = ""
       THEN resp' = ProfileResp(viewer, username, 400, "username is missing",
                                NoChannel)
       ELSE IF uid = 0
       THEN resp' = ProfileResp(viewer, username, 404,
                                "channel does not exists", NoChannel)
       ELSE resp' = ProfileResp(viewer, username, 200,
                                "User channel fetched successfully",
                                ChannelView(users, subs, viewer, uid))

\* Toggles between the users build the edge sets the profile is read from;
\* the requests arrive one after the other.
NextProfile ==
    \/ \E actor \in UserIds, channelId \in UserIds :
          ToggleFind(Serial, actor, channelId)
    \/ ToggleWrite(Serial)
    \/ \E viewer \in UserIds, username \in ProfileNames :
          Quiet /\ getUserChannelProfile(viewer, username)

SpecProfile == InitSub /\ [][NextProfile]_vars

(***************************************************************************)
(* Claims about the channel profile, checked under SpecProfile.            *)
(***************************************************************************)
\* The stored users whose username is the requested one, case ignored.
NamedBy(username) ==
    {u \in UserIds : users[u].present /\ users[u].username = ToLower(username)}

\* C12: for every stored set of edges, every viewer and every non-blank
\* username, get-channel-profile fails with 404 when no user has that
\* username; otherwise it returns, for the user of that name,
\* subscribersCount = the number of edges whose channel is that user,
\* channelsSubscribedToCount = the number of edges whose subscriber is that
\* user, and isSubscribed true exactly when an edge from the viewer to that
\* user exists.  (A blank username is the BadRequest case of the request.)
C12_ChannelProfileCounts ==
    (resp.op = "profile" /\ Trim(resp.username) # "")
    => IF NamedBy(resp.username) = {}
       THEN resp.status = 404 /\ ~resp.success
       ELSE \A u \in NamedBy(resp.username) :
               /\ resp.status = 200 /\ resp.success
               /\ resp.data.id = u
               /\ resp.data.subscribersCount
                     = Cardinality({e \in subs : e.channel = u})
               /\ resp.data.channelsSubscribedToCount
                     = Cardinality({e \in subs : e.subscriber = u})
               /\ resp.data.isSubscribed
                     <=> \E e \in subs : e.subscriber = resp.actor
                                         /\ e.channel = u

\* A profile asked for as "Ada" by a viewer who is not subscribed, of a
\* channel that has a subscriber and subscribes to a channel itself.
C12_Witness ==
    /\ resp.op = "profile" /\ resp.status = 200 /\ resp.username = "Ada"
    /\ resp.data.subscribersCount = 1 /\ ~resp.data.isSubscribed
    /\ resp.data.channelsSubscribedToCount >= 1
    /\ \E e \in subs : e.channel = resp.data.id /\ e.subscriber # resp.actor

(***************************************************************************)
(* Tweet controller (src/unnamed/part_000; the owner field of a tweet      *)
(* document is tweetOwner there, `owner` here).                            *)
(***************************************************************************)
\* Tweet documents created in one behaviour.
MaxTweets == 2

\* The content of a request body: missing, empty, whitespace only, text, and
\* text with surrounding blanks.
Contents == {Absent, "", "   ", "hi", " hi "}

\* The well-formed tweet ids a request can name: an id names no stored tweet
\* before that tweet is created and after it is deleted.
TweetIds == 1 .. MaxTweets

\* null, as a tweet document.
NoTweet == [id |-> 0, content |-> Absent, owner |-> 0]

\* Tweet.findById(tweetId): the document or NoTweet.
findTweetById(T, tweetId) ==
    IF \E t \in T : t.id = tweetId
    THEN CHOOSE t \in T : t.id = tweetId ELSE NoTweet

\* Tweet.create({content, tweetOwner}): the collection after it.
TweetCreate(T, id, content, owner) ==
    T \cup {[id |-> id, content |-> content, owner |-> owner]}

\* Whether Tweet.create rejects the document with a ValidationError: only a
\* schema that requires content does, for missing or empty content.
TweetCreateRejects(sch, content) == sch.contentRequired /\ Falsy(content)

\* const updatedContent = content.trim() ? content : tweet?.content
\* (part_000 line 153)
UpdatedContent(content, tweet) ==
    IF Trim(content) # "" THEN content ELSE tweet.content

\* Tweet.findByIdAndUpdate(tweetId, {$set: {content}}, {new: true})
TweetSetContent(T, tweetId, content) ==
    {IF t.id = tweetId THEN [t EXCEPT !.content = content] ELSE t : t \in T}

\* A faulty delete that removes every tweet of the tweet's owner (mutation
\* of TweetDelete).
TweetDelete_AllOfOwner(T, tweetId) ==
    {t \in T : \A d \in T : d.id = tweetId => t.owner # d.owner}

\* Tweet.findByIdAndDelete(tweetId)
TweetDelete(T, tweetId) == {t \in T : t.id # tweetId}

\* tweet.tweetOwner.toString() !== req.user._id.toString(), negated
\* (part_000 lines 143 and 193)
IsOwner(tweet, actor) == tweet.owner = actor

\* The status a handler gives a request of someone who is not the owner
\* (part_000 lines 144 and 194).
NotOwnerStatus(op) == IF op = "update" THEN 404 ELSE 403

\* The status a handler gives a tweet id that is not a well-formed ObjectId
\* (part_000 lines 132 and 182).
MalformedIdStatus(op) == 400

\* new ApiResponse(200, updateTweet, ..)  (part_000 line 172): the data is
\* the handler function updateTweet, not the document updatedTweet, and
\* JSON.stringify leaves a function-valued property out: the body has no
\* data.
UpdateResponseData(updatedTweet) == NoTweet

\* The rows of the getUserTweets aggregation: $match on the owner.
OwnTweets(T, actor) == {t \in T : t.owner = actor}

\* Like documents a like collection can hold.
MaxLikes == 2

LikeIds == 1 .. MaxLikes

\* The like documents: an edge from the user likedBy to the target tweet.
\* (The like model is not among the sources; the field names are the
\* spec's.)  Nothing makes a (likedBy, tweet) pair unique.
LikeDocs == [id : LikeIds, likedBy : UserIds, tweet : TweetIds]

\* The like collections: each document id is held at most once.
LikeCollections ==
    {L \in SUBSET LikeDocs : \A a, b \in L : a.id = b.id => a = b}

\* $lookup from likes, localField _id, foreignField tweet: likeDetails.
LikeDetails(L, tweetId) == {l \in L : l.tweet = tweetId}

\* "$likeDetails.likedBy": the values of the projected field over
\* likeDetails  (part_000 lines 72 and 85).
LikeDetailsField(L, tweetId) == {l.likedBy : l \in LikeDetails(L, tweetId)}

\* likeCount: {$size: "$likeDetails"}
LikeCount(L, tweetId) == Cardinality(LikeDetails(L, tweetId))

\* isLiked: {$in: [req.user?._id, "$likeDetails.likedBy"]}
IsLiked(L, viewer, tweetId) == viewer \in LikeDetailsField(L, tweetId)

\* One row of the aggregation: the $addFields and $project stages.
TweetRow(L, viewer, t) ==
    [id |-> t.id, content |-> t.content,
     likeCount |-> LikeCount(L, t.id),
     isLiked |-> IsLiked(L, viewer, t.id)]

\* new ApiResponce(200, tweets, "User Tweets")  (part_000 line 121): the
\* identifier ApiResponce is neither imported nor declared.
ApiResponceDefined == FALSE

\* What getUserTweets answers: the rows of the aggregation, unless building
\* the response throws a ReferenceError, which ends the request in the
\* error handler.
GetUserTweetsResult(T, L, actor) ==
    IF ApiResponceDefined
    THEN [status |-> 200,
          rows |-> {TweetRow(L, actor, t) : t \in OwnTweets(T, actor)}]
    ELSE [status |-> 500, rows |-> {}]

\* The request and the response to it; status is the HTTP status, success
\* whether an ApiResponse was sent rather than an error.
TweetResp(op, actor, tweetId, content, status, message, data, rows) ==
    [op |-> op, actor |-> actor, tweetId |-> tweetId, content |-> content,
     status |-> status, success |-> status < 400, message |-> message,
     data |-> data, rows |-> rows]

\* createTweet  (part_000 lines 8-32), one store call.
createTweet(actor, content) ==
    /\ UNCHANGED notTweetVars
    /\ UNCHANGED reqs
    /\ IF content = ""
       THEN /\ resp' = TweetResp("create", actor, 0, content, 400,
                                 "Tweet content required", NoTweet, {})
            /\ UNCHANGED <<tweets, tweetSeq>>
       ELSE IF TweetCreateRejects(schema, content)
       THEN /\ resp' = TweetResp("create", actor, 0, content, 500,
                                 "ValidationError", NoTweet, {})
            /\ UNCHANGED <<tweets, tweetSeq>>
       ELSE /\ tweetSeq < MaxTweets
            /\ tweets' = TweetCreate(tweets, tweetSeq + 1, content, actor)
            /\ tweetSeq' = tweetSeq + 1
            /\ resp' = TweetResp("create", actor, 0, content, 200,
                                 "Tweet Posted",
                                 [id |-> tweetSeq + 1, content |-> content,
                                  owner |-> actor], {})

\* getUserTweets  (part_000 lines 35-122), one store call (the aggregation).
getUserTweets(actor) ==
    /\ UNCHANGED notTweetVars
    /\ UNCHANGED <<tweets, tweetSeq, reqs>>
    /\ LET r == GetUserTweetsResult(tweets, likes, actor)
       IN resp' = TweetResp("list", actor, 0, Absent, r.status,
                            IF r.status = 200 THEN "User Tweets"
                            ELSE "ReferenceError", NoTweet, r.rows)

\* An update request arrives: the id test, await Tweet.findById, the owner
\* test, the content test and the choice of the content to store
\* (part_000 lines 127-153).  The slot holds the content of the request and
\* the content chosen.
UpdateFind(r, actor, tweetId, content) ==
    /\ Arrives(r)
    /\ LET tweet == findTweetById(tweets, tweetId)
           Fail(status, message) ==
               /\ resp' = TweetResp("update", actor, tweetId, content, status,
                                    message, NoTweet, {})
               /\ UNCHANGED reqs
       IN
       IF tweetId = MalformedId
       THEN Fail(MalformedIdStatus("update"), "Invalid tweet id")
       ELSE IF tweet = NoTweet
       THEN Fail(404, "Tweet not found")
       ELSE IF ~IsOwner(tweet, actor)
       THEN Fail(NotOwnerStatus("update"), "not authorized")
       ELSE IF Falsy(content)
       THEN Fail(404, "Tweet content required")
       ELSE /\ reqs' = AfterRead(r, "update", actor, tweetId, tweet.id,
                                 <<content, UpdatedContent(content, tweet)>>)
            /\ UNCHANGED resp
    /\ UNCHANGED <<tweets, tweetSeq>>
    /\ UNCHANGED notTweetVars

\* await Tweet.findByIdAndUpdate(tweetId, {$set: {content: updatedContent}}):
\* it returns the updated document, or null when no tweet has the id any
\* more, and then the handler throws 500  (part_000 lines 154-172).
UpdateWrite(r) ==
    /\ At(r, "update", "found")
    /\ UNCHANGED notTweetVars
    /\ UNCHANGED tweetSeq
    /\ reqs' = AfterAnswer(r)
    /\ LET actor == reqs.slot[r].actor
           tweetId == reqs.slot[r].target
           content == reqs.slot[r].args[1]
           updatedContent == reqs.slot[r].args[2]
           updatedTweet ==
               findTweetById(TweetSetContent(tweets, tweetId, updatedContent),
                             tweetId)
       IN
       IF updatedTweet = NoTweet
       THEN /\ resp' = TweetResp("update", actor, tweetId, content, 500,
                                 "Something went wrong while updating tweet",
                                 NoTweet, {})
            /\ UNCHANGED tweets
       ELSE /\ tweets' = TweetSetContent(tweets, tweetId, updatedContent)
            /\ resp' = TweetResp("update", actor, tweetId, content, 200,
                                 "Tweet Updated Successfully",
                                 UpdateResponseData(updatedTweet), {})

\* A delete request arrives: the id test, await Tweet.findById, and the
\* owner test  (part_000 lines 178-195).
DeleteFind(r, actor, tweetId) ==
    /\ Arrives(r)
    /\ UNCHANGED notTweetVars
    /\ UNCHANGED <<tweets, tweetSeq>>
    /\ LET tweet == findTweetById(tweets, tweetId)
           Fail(status, message) ==
               /\ resp' = TweetResp("delete", actor, tweetId, Absent, status,
                                    message, NoTweet, {})
               /\ UNCHANGED reqs
       IN
       IF tweetId = MalformedId
       THEN Fail(MalformedIdStatus("delete"), "Invalid tweet id")
       ELSE IF tweet = NoTweet
       THEN Fail(404, "Tweet not found")
       ELSE IF ~IsOwner(tweet, actor)
       THEN Fail(NotOwnerStatus("delete"), "not authorized")
       ELSE /\ reqs' = AfterRead(r, "delete", actor, tweetId, tweet.id, <<>>)
            /\ UNCHANGED resp

\* await Tweet.findByIdAndDelete(tweetId): it returns the deleted document,
\* or null when no tweet has the id any more, and then the handler throws
\* 500  (part_000 lines 198-208).
DeleteWrite(r) ==
    /\ At(r, "delete", "found")
    /\ UNCHANGED notTweetVars
    /\ UNCHANGED tweetSeq
    /\ reqs' = AfterAnswer(r)
    /\ LET actor == reqs.slot[r].actor
           tweetId == reqs.slot[r].target
           deletedTweet == findTweetById(tweets, tweetId)
       IN
       IF deletedTweet = NoTweet
       THEN /\ resp' = TweetResp("delete", actor, tweetId, Absent, 500,
                                 "Something went wrong while deleting tweet",
                                 NoTweet, {})
            /\ UNCHANGED tweets
       ELSE /\ tweets' = TweetDelete(tweets, tweetId)
            /\ resp' = TweetResp("delete", actor, tweetId, Absent, 200,
                                 "Tweet deleted successfully", deletedTweet,
                                 {})

InitTweet ==
    /\ users = RegisteredUsers
    /\ issued = {}
    /\ expired = {}
    /\ tokenSeq = 0
    /\ subs = {}
    /\ subSeq = 0
    /\ tweets = {}
    /\ tweetSeq = 0
    /\ likes = {}
    /\ schema \in Schemas
    /\ resp = NoResp
    /\ prev = NoResp
    /\ reqs = NoRequests

\* Requests arrive one after the other.
NextTweet ==
    \/ \E actor \in UserIds, content \in Contents :
          Quiet /\ createTweet(actor, content)
    \/ \E actor \in UserIds : Quiet /\ getUserTweets(actor)
    \/ \E actor \in UserIds, tweetId \in TweetIds \cup {MalformedId},
          content \in Contents : UpdateFind(Serial, actor, tweetId, content)
    \/ UpdateWrite(Serial)
    \/ \E actor \in UserIds, tweetId \in TweetIds \cup {MalformedId} :
          DeleteFind(Serial, actor, tweetId)
    \/ DeleteWrite(Serial)

SpecTweet == InitTweet /\ [][NextTweet]_vars

(***************************************************************************)
(* Claims about the tweet handlers, checked under SpecTweet.               *)
(***************************************************************************)
\* The request is one by someone other than the owner of a stored tweet.
ByNonOwner(actor, tweetId) ==
    /\ findTweetById(tweets, tweetId) # NoTweet
    /\ findTweetById(tweets, tweetId).owner # actor

\* The request is one by the owner of a stored tweet.
ByOwner(actor, tweetId) ==
    /\ findTweetById(tweets, tweetId) # NoTweet
    /\ findTweetById(tweets, tweetId).owner = actor

\* The arriving request is answered at once, with the status, and has
\* changed no tweet.
RejectedWith(status) ==
    resp'.status = status /\ tweets' = tweets /\ reqs' = reqs

\* C6: an update or delete request for a tweet by an identity other than its
\* owner fails with Forbidden (403) and leaves the stored tweets as they were.
C6_NonOwnerForbidden ==
    [][\A actor \in UserIds, tweetId \in TweetIds :
          /\ \A content \in Contents :
                (/\ UpdateFind(Serial, actor, tweetId, content)
                 /\ ByNonOwner(actor, tweetId))
                => RejectedWith(403)
          /\ (DeleteFind(Serial, actor, tweetId) /\ ByNonOwner(actor, tweetId))
                => RejectedWith(403)]_vars

\* An update request arrives at the idle slot: it is answered at once or
\* parked after its read.
UpdateArrives ==
    /\ Quiet
    /\ resp'.op = "update" \/ reqs'.slot[Serial].op = "update"

\* The update request in the slot goes on to its write and the write stores
\* what the claim says: nothing new when the content of the request is
\* empty after trimming, the content of the request otherwise; the handler
\* reports success.
UpdateWriteAsClaimed ==
    (At(Serial, "update", "found") /\ UpdateWrite(Serial))
    => LET tweetId == reqs.slot[Serial].target
           content == reqs.slot[Serial].args[1]
       IN /\ resp'.op = "update" /\ resp'.success
          /\ resp'.content = content
          /\ IF Trim(content) = ""
             THEN tweets' = tweets
             ELSE /\ findTweetById(tweets', tweetId).content = content
                  /\ findTweetById(tweets', tweetId).owner
                        = reqs.slot[Serial].actor
                  /\ {t \in tweets' : t.id # tweetId}
                        = {t \in tweets : t.id # tweetId}

\* The arriving update request of the owner goes on to its write.
GoesOnToWrite(content) ==
    /\ tweets' = tweets /\ resp' = resp
    /\ reqs'.slot[Serial].pc = "found"
    /\ reqs'.slot[Serial].args[1] = content

\* C7: an update by the owner whose content is empty after
\* trimming leaves the stored tweets unchanged and reports success; otherwise
\* the stored content becomes the supplied content.
C7_Original ==
    [][/\ UpdateArrives
          => \A t \in tweets, content \in Contents \ {Absent} :
               UpdateFind(Serial, t.owner, t.id, content)
               => GoesOnToWrite(content)
       /\ UpdateWriteAsClaimed]_vars

\* C8: a create request with non-empty content stores exactly one new tweet,
\* owned by the acting identity, with the supplied content verbatim, leaves
\* the tweets stored before unchanged, and list-own-tweets for that identity
\* then returns the new tweet.
C8_CreateStoresAndLists ==
    [][\A actor \in UserIds, content \in Contents \ {Absent, ""} :
          createTweet(actor, content)
          => /\ resp'.success
             /\ \E t \in tweets' \ tweets :
                   /\ tweets' = tweets \cup {t}
                   /\ t.owner = actor /\ t.content = content
                   /\ GetUserTweetsResult(tweets', likes, actor).status = 200
                   /\ \E r \in GetUserTweetsResult(tweets', likes, actor).rows :
                         r.id = t.id /\ r.content = t.content]_vars

\* C9: every stored tweet has content that is present and not empty, and a
\* create request with empty or absent content fails with BadRequest (400)
\* and stores nothing.
C9_ContentNonEmpty ==
    /\ [](\A t \in tweets : t.content # Absent /\ t.content # "")
    /\ [][\A actor \in UserIds, content \in {Absent, ""} :
            createTweet(actor, content)
            => (resp'.status = 400 /\ tweets' = tweets)]_vars

\* C15: an update-tweet request fails with 400 when the tweet id is
\* malformed, with 400 when the content is missing from the request (for a
\* stored tweet of the requester), and with 404 when the id is well formed
\* and no tweet has it (content given); in each case no stored tweet is
\* modified.
C15_UpdateRejections ==
    [][\A actor \in UserIds, tweetId \in TweetIds \cup {MalformedId},
          content \in Contents :
          UpdateFind(Serial, actor, tweetId, content)
          => /\ tweetId = MalformedId => RejectedWith(400)
             /\ (content = Absent /\ ByOwner(actor, tweetId))
                  => RejectedWith(400)
             /\ (/\ tweetId # MalformedId /\ content # Absent
                 /\ findTweetById(tweets, tweetId) = NoTweet)
                  => RejectedWith(404)]_vars

(***************************************************************************)
(* The tweet feed over a like collection.  The sources hold no handler     *)
(* that writes likes, so a behaviour starts from any like collection and   *)
(* the tweet handlers build the tweets the likes target.                   *)
(***************************************************************************)
InitFeed ==
    /\ users = RegisteredUsers
    /\ issued = {}
    /\ expired = {}
    /\ tokenSeq = 0
    /\ subs = {}
    /\ subSeq = 0
    /\ tweets = {}
    /\ tweetSeq = 0
    /\ likes \in LikeCollections
    /\ schema = StrictSchema
    /\ resp = NoResp
    /\ prev = NoResp
    /\ reqs = NoRequests

NextFeed ==
    \/ \E actor \in UserIds : Quiet /\ createTweet(actor, "hi")
    \/ \E actor \in UserIds : Quiet /\ getUserTweets(actor)
    \/ \E actor \in UserIds, tweetId \in TweetIds :
          DeleteFind(Serial, actor, tweetId)
    \/ DeleteWrite(Serial)

SpecFeed == InitFeed /\ [][NextFeed]_vars

\* C13: for every stored set of tweets and like edges and every viewer,
\* list-own-tweets succeeds and returns exactly one row per tweet the viewer
\* owns, each with likeCount = the number of like edges targeting the tweet
\* and isLiked true exactly when one of those edges has likedBy = the viewer.
C13_FeedLikes ==
    resp.op = "list"
    => /\ resp.success
       /\ {r.id : r \in resp.rows} = {t.id : t \in OwnTweets(tweets, resp.actor)}
       /\ Cardinality(resp.rows)
            = Cardinality({t \in tweets : t.owner = resp.actor})
       /\ \A r \in resp.rows :
             /\ r.likeCount = Cardinality({l \in likes : l.tweet = r.id})
             /\ r.isLiked <=> \E l \in likes : l.tweet = r.id
                                             /\ l.likedBy = resp.actor

(***************************************************************************)
(* User controller: register and update-profile (src/unnamed/part_001).    *)
(***************************************************************************)
\* User documents the identity store can hold in one behaviour.
MaxUsers == 2

RegIds == 1 .. MaxUsers

\* field?.trim() === ""  (part_001 line 42): undefined is not blank.
Blank(field) == field # Absent /\ Trim(field) = ""

RegisterNames == {Absent, "   ", "ada", "Ada", "bob"}
RegisterEmails == {"", "ada@x.com", "bob@x.com"}
RegisterFullNames == {"", "Name"}
RegisterPasswords == {"", "secret1"}

\* The avatar of a register request: uploaded; no files at all (req.files
\* undefined); files without an avatar field (req.files.avatar undefined, so
\* req.files?.avatar[0] throws a TypeError); or a file whose upload fails
\* (uploadOnCloudinary returns null).
Avatars == {"uploaded", "noFiles", "noAvatarField", "uploadFails"}

ProfileFullNames == {Absent, "Name", "New Name"}
ProfileEmails == {"", "ada@x.com", "bob@x.com"}

\* The ids of the stored users.
Present(us) == {u \in DOMAIN us : us[u].present}

\* A unique index on username or email rejects the write (E11000) when
\* another document holds the value; only a schema that declares the
\* indexes does.
DuplicateKey(sch, us, self, username, email) ==
    /\ sch.uniqueUsers
    /\ \E u \in Present(us) \ {self} :
          us[u].username = username \/ us[u].email = email

\* username: username.toLowerCase()  (part_001 line 85)
StoredUsername(username) == ToLower(username)

\* The request and the response to it.
UserResp(op, actor, fullName, username, email, status, message, user) ==
    [op |-> op, actor |-> actor, fullName |-> fullName,
     username |-> username, email |-> email, status |-> status,
     success |-> status < 400, message |-> message, user |-> user]

\* The response to the register request of slot r, whose strings are
\* fullName, email, username, password and the avatar of the request.
RegisterResp(r, status, message, user) ==
    UserResp("register", 0, reqs.slot[r].args[1], reqs.slot[r].args[3],
             reqs.slot[r].args[2], status, message, user)

\* A register request arrives: the test for blank fields, await
\* User.findOne, and the path of the avatar file  (part_001 lines 38-68).
RegisterFind(r, fullName, email, username, password, avatar) ==
    /\ Arrives(r)
    /\ UNCHANGED <<users, issued, expired, tokenSeq>>
    /\ UNCHANGED notTokenVars
    /\ LET Fail(status, message) ==
               /\ resp' = UserResp("register", 0, fullName, username, email,
                                   status, message, 0)
               /\ UNCHANGED reqs
       IN
       IF \E f \in {fullName, email, username, password} : Blank(f)
       THEN Fail(400, "All fields are required")
       ELSE IF findOneByUsernameOrEmail(users, username, email) # 0
       THEN Fail(409, "User with email or username already exists")
       ELSE IF avatar = "noAvatarField"
       THEN Fail(500, "TypeError")
       ELSE IF avatar = "noFiles"
       THEN Fail(400, "Avatar file is required")
       ELSE /\ reqs' = AfterRead(r, "register", 0, 0, 0,
                                 <<fullName, email, username, password,
                                   avatar>>)
            /\ UNCHANGED resp

\* await uploadOnCloudinary(avatarLocalPath)  (part_001 line 71): the
\* upload of the avatar ends, and the handler waits for the next one.
RegisterUploadAvatar(r) ==
    /\ At(r, "register", "found")
    /\ reqs' = AfterAwait(r, "avatarUploaded")
    /\ UNCHANGED <<users, issued, expired, tokenSeq, resp>>
    /\ UNCHANGED notTokenVars

\* await uploadOnCloudinary(coverImageLocalPath)  (part_001 line 72), the
\* test of the avatar, and the document to create, whose username is
\* username.toLowerCase()  (lines 74-86).
RegisterUploadCover(r) ==
    /\ At(r, "register", "avatarUploaded")
    /\ UNCHANGED <<users, issued, expired, tokenSeq>>
    /\ UNCHANGED notTokenVars
    /\ IF reqs.slot[r].args[5] = "uploadFails"
       THEN /\ resp' = RegisterResp(r, 400, "Avatar file is required", 0)
            /\ reqs' = AfterAnswer(r)
       ELSE IF reqs.slot[r].args[3] = Absent
       THEN /\ resp' = RegisterResp(r, 500, "TypeError", 0)
            /\ reqs' = AfterAnswer(r)
       ELSE /\ reqs' = AfterAwait(r, "uploaded")
            /\ UNCHANGED resp

\* await User.create(..)  (part_001 lines 79-86).
RegisterCreate(r) ==
    /\ At(r, "register", "uploaded")
    /\ UNCHANGED <<issued, expired, tokenSeq>>
    /\ UNCHANGED notTokenVars
    /\ LET id == Cardinality(Present(users)) + 1
           username == StoredUsername(reqs.slot[r].args[3])
       IN
       IF DuplicateKey(schema, users, 0, username, reqs.slot[r].args[2])
       THEN /\ resp' = RegisterResp(r, 500, "E11000 duplicate key", 0)
            /\ reqs' = AfterAnswer(r)
            /\ UNCHANGED users
       ELSE /\ id \in RegIds
            /\ users' = [users EXCEPT
                           ![id] = UserDoc(reqs.slot[r].args[1], username,
                                           reqs.slot[r].args[2],
                                           reqs.slot[r].args[4])]
            /\ reqs' = [reqs EXCEPT !.slot[r].pc = "created",
                                    !.slot[r].seen = id]
            /\ UNCHANGED resp

\* await User.findById(user._id).select(..), and the response
\* (part_001 lines 89-100).
RegisterAnswer(r) ==
    /\ At(r, "register", "created")
    /\ UNCHANGED <<users, issued, expired, tokenSeq>>
    /\ UNCHANGED notTokenVars
    /\ reqs' = AfterAnswer(r)
    /\ IF findById(users, reqs.slot[r].seen).present
       THEN resp' = RegisterResp(r, 201, "User registered Successfully",
                                 reqs.slot[r].seen)
       ELSE resp' = RegisterResp(r, 500,
                                 "Something went wrong while registering the user",
                                 0)

\* updateAccountDetails  (part_001 lines 294-322), one store call; req.user
\* is the authenticated user.
updateAccountDetails(actor, fullName, email) ==
    /\ UNCHANGED <<issued, expired, tokenSeq, reqs>>
    /\ UNCHANGED notTokenVars
    /\ actor \in Present(users)
    /\ LET Fail(status, message) ==
               /\ resp' = UserResp("updateAccount", actor, fullName, Absent,
                                   email, status, message, 0)
               /\ UNCHANGED users
       IN
       IF Falsy(fullName) \/ Falsy(email)
       THEN Fail(400, "All fields are required")
       ELSE IF DuplicateKey(schema, users, actor, Absent, email)
       THEN Fail(500, "E11000 duplicate key")
       ELSE /\ users' = [users EXCEPT ![actor].fullName = fullName,
                                      ![actor].email = email]
            /\ resp' = UserResp("updateAccount", actor, fullName, Absent,
                                email, 200,
                                "Account details updated successfully", actor)

\* The old and the new password of a change-password request.
OldPasswords == {"secret1", "wrong"}
NewPasswords == {"secret2"}

\* The file of an upload request: none (req.file undefined), one whose
\* upload fails (uploadOnCloudinary returns null), or one that is uploaded.
Files == {"noFile", "uploadFails", "uploaded"}

\* The response to a change-password request.
PasswordResp(actor, status, message) ==
    UserResp("changePassword", actor, Absent, Absent, Absent, status,
             message, IF status < 400 THEN actor ELSE 0)

\* A change-password request arrives and awaits User.findById  (part_001
\* lines 263-265); req.user is the authenticated user.  The slot holds the
\* two passwords of the request and the hash of the document found.
ChangePasswordFind(r, actor, oldPassword, newPassword) ==
    /\ Arrives(r)
    /\ actor \in Present(users)
    /\ reqs' = AfterRead(r, "changePassword", actor, 0, actor,
                         <<oldPassword, newPassword, users[actor].password>>)
    /\ UNCHANGED <<users, issued, expired, tokenSeq, resp>>
    /\ UNCHANGED notTokenVars

\* await user.isPasswordCorrect(oldPassword), and the 400 when it is false
\* (part_001 lines 266-270).
ChangePasswordCheck(r) ==
    /\ At(r, "changePassword", "found")
    /\ UNCHANGED <<users, issued, expired, tokenSeq>>
    /\ UNCHANGED notTokenVars
    /\ IF ~isPasswordCorrect(reqs.slot[r].args[3], reqs.slot[r].args[1])
       THEN /\ resp' = PasswordResp(reqs.slot[r].actor, 400,
                                    "Invalid old password")
            /\ reqs' = AfterAnswer(r)
       ELSE /\ reqs' = AfterAwait(r, "checked")
            /\ UNCHANGED resp

\* user.password = newPassword; await user.save(..), and the response
\* (part_001 lines 273-278).
ChangePasswordSave(r) ==
    /\ At(r, "changePassword", "checked")
    /\ users' = [users EXCEPT ![reqs.slot[r].actor].password =
                                  reqs.slot[r].args[2]]
    /\ resp' = PasswordResp(reqs.slot[r].actor, 200,
                            "Password changed successfully")
    /\ reqs' = AfterAnswer(r)
    /\ UNCHANGED <<issued, expired, tokenSeq>>
    /\ UNCHANGED notTokenVars

\* await deletefromCloudinary(oldAvatarUrl)  (part_001 line 357): the
\* identifier is neither imported nor declared, so evaluating it throws a
\* ReferenceError.
DeleteFromCloudinaryThrows == TRUE

\* The response to an update-avatar or update-cover-image request.
FileResp(op, actor, status, message, user) ==
    UserResp(op, actor, Absent, Absent, Absent, status, message, user)

\* An update-avatar request arrives: the test of req.file, and the call of
\* uploadOnCloudinary  (part_001 lines 332-338); req.user is the
\* authenticated user.  The slot holds the file of the request.
UpdateAvatarArrive(r, actor, file) ==
    /\ Arrives(r)
    /\ actor \in Present(users)
    /\ UNCHANGED <<users, issued, expired, tokenSeq>>
    /\ UNCHANGED notTokenVars
    /\ IF file = "noFile"
       THEN /\ resp' = FileResp("updateAvatar", actor, 400,
                                "Avatar file is missing", 0)
            /\ UNCHANGED reqs
       ELSE /\ reqs' = AfterArrival(r, "updateAvatar", actor, <<file>>)
            /\ UNCHANGED resp

\* await uploadOnCloudinary(avatarLocalPath) ends  (part_001 lines
\* 338-344): a failed upload gives null, and avatar.url throws a TypeError.
UpdateAvatarUpload(r) ==
    /\ At(r, "updateAvatar", "arrived")
    /\ UNCHANGED <<users, issued, expired, tokenSeq>>
    /\ UNCHANGED notTokenVars
    /\ IF reqs.slot[r].args[1] = "uploadFails"
       THEN /\ resp' = FileResp("updateAvatar", reqs.slot[r].actor, 500,
                                "TypeError", 0)
            /\ reqs' = AfterAnswer(r)
       ELSE /\ reqs' = AfterAwait(r, "uploaded")
            /\ UNCHANGED resp

\* await User.findByIdAndUpdate(.., {$set: {avatar: avatar.url}}), then the
\* ReferenceError of line 357, which asyncHandler passes to next()
\* (part_001 lines 346-363).  With no such user nothing is stored.
UpdateAvatarWrite(r) ==
    /\ At(r, "updateAvatar", "uploaded")
    /\ UNCHANGED <<issued, expired, tokenSeq>>
    /\ UNCHANGED notTokenVars
    /\ reqs' = AfterAnswer(r)
    /\ LET actor == reqs.slot[r].actor
           user == IF actor \in Present(users) THEN actor ELSE 0
       IN /\ users' = IF user = 0 THEN users
                       ELSE [users EXCEPT ![actor].avatar = UploadedUrl]
          /\ IF DeleteFromCloudinaryThrows
             THEN resp' = FileResp("updateAvatar", actor, 500,
                                   "ReferenceError", 0)
             ELSE resp' = FileResp("updateAvatar", actor, 200,
                                   "Avatar image updated successfully", user)

\* An update-cover-image request arrives: the test of req.file, and the
\* call of uploadOnCloudinary  (part_001 lines 369-375).
UpdateCoverImageArrive(r, actor, file) ==
    /\ Arrives(r)
    /\ actor \in Present(users)
    /\ UNCHANGED <<users, issued, expired, tokenSeq>>
    /\ UNCHANGED notTokenVars
    /\ IF file = "noFile"
       THEN /\ resp' = FileResp("updateCoverImage", actor, 400,
                                "Cover image file is missing", 0)
            /\ UNCHANGED reqs
       ELSE /\ reqs' = AfterArrival(r, "updateCoverImage", actor, <<file>>)
            /\ UNCHANGED resp

\* await uploadOnCloudinary(coverImageLocalPath) ends  (part_001 lines
\* 375-379): a failed upload gives null, and coverImage.url throws a
\* TypeError.
UpdateCoverImageUpload(r) ==
    /\ At(r, "updateCoverImage", "arrived")
    /\ UNCHANGED <<users, issued, expired, tokenSeq>>
    /\ UNCHANGED notTokenVars
    /\ IF reqs.slot[r].args[1] = "uploadFails"
       THEN /\ resp' = FileResp("updateCoverImage", reqs.slot[r].actor, 500,
                                "TypeError", 0)
            /\ reqs' = AfterAnswer(r)
       ELSE /\ reqs' = AfterAwait(r, "uploaded")
            /\ UNCHANGED resp

\* await User.findByIdAndUpdate(.., {$set: {coverImage: coverImage.url}}),
\* and the response with the document it returns, null when there is no
\* such user  (part_001 lines 381-395).
UpdateCoverImageWrite(r) ==
    /\ At(r, "updateCoverImage", "uploaded")
    /\ UNCHANGED <<issued, expired, tokenSeq>>
    /\ UNCHANGED notTokenVars
    /\ reqs' = AfterAnswer(r)
    /\ LET actor == reqs.slot[r].actor
           user == IF actor \in Present(users) THEN actor ELSE 0
       IN /\ users' = IF user = 0 THEN users
                       ELSE [users EXCEPT ![actor].coverImage = UploadedUrl]
          /\ resp' = FileResp("updateCoverImage", actor, 200,
                              "Cover image updated successfully", user)

InitUser ==
    /\ users = [u \in RegIds |-> NoUser]
    /\ issued = {}
    /\ expired = {}
    /\ tokenSeq = 0
    /\ subs = {}
    /\ subSeq = 0
    /\ tweets = {}
    /\ tweetSeq = 0
    /\ likes = {}
    /\ schema \in Schemas
    /\ resp = NoResp
    /\ prev = NoResp
    /\ reqs = NoRequests

\* Requests arrive one after the other.
NextUser ==
    \/ \E fullName \in RegisterFullNames, email \in RegisterEmails,
          username \in RegisterNames, password \in RegisterPasswords,
          avatar \in Avatars :
          RegisterFind(Serial, fullName, email, username, password, avatar)
    \/ RegisterUploadAvatar(Serial)
    \/ RegisterUploadCover(Serial)
    \/ RegisterCreate(Serial)
    \/ RegisterAnswer(Serial)
    \/ \E actor \in RegIds, fullName \in ProfileFullNames,
          email \in ProfileEmails :
          Quiet /\ updateAccountDetails(actor, fullName, email)

SpecUser == InitUser /\ [][NextUser]_vars

(***************************************************************************)
(* The handlers of the user controller that write, one request after the   *)
(* other, starting from an empty identity store.                           *)
(***************************************************************************)
InitAccount ==
    /\ users = [u \in RegIds |-> NoUser]
    /\ issued = {}
    /\ expired = {}
    /\ tokenSeq = 0
    /\ subs = {}
    /\ subSeq = 0
    /\ tweets = {}
    /\ tweetSeq = 0
    /\ likes = {}
    /\ schema \in Schemas
    /\ resp = NoResp
    /\ prev = NoResp
    /\ reqs = NoRequests

\* The requests of the authenticated handlers come from stored users.
NextAccount ==
    \/ \E fullName \in RegisterFullNames, username \in {"ada", "Ada"},
          avatar \in Avatars :
          RegisterFind(Serial, fullName, "ada@x.com", username, "secret1",
                       avatar)
    \/ RegisterUploadAvatar(Serial)
    \/ RegisterUploadCover(Serial)
    \/ RegisterCreate(Serial)
    \/ RegisterAnswer(Serial)
    \/ \E n \in {"ada", "zed"}, p \in {"secret1", "wrong"} :
          LoginFind(Serial, n, Absent, p)
    \/ LoginPassword(Serial)
    \/ LoginGenerate(Serial)
    \/ LoginSave(Serial)
    \/ LoginAnswer(Serial)
    \/ \E t \in Presentable : RefreshCheck(Serial, t)
    \/ RefreshGenerate(Serial)
    \/ RefreshSave(Serial)
    \/ \E actor \in Present(users), old \in OldPasswords,
          new \in NewPasswords : ChangePasswordFind(Serial, actor, old, new)
    \/ ChangePasswordCheck(Serial)
    \/ ChangePasswordSave(Serial)
    \/ \E actor \in Present(users), fullName \in {Absent, "New Name"} :
          Quiet /\ updateAccountDetails(actor, fullName, "ada@x.com")
    \/ \E actor \in Present(users), file \in Files :
          UpdateAvatarArrive(Serial, actor, file)
    \/ UpdateAvatarUpload(Serial)
    \/ UpdateAvatarWrite(Serial)
    \/ \E actor \in Present(users), file \in Files :
          UpdateCoverImageArrive(Serial, actor, file)
    \/ UpdateCoverImageUpload(Serial)
    \/ UpdateCoverImageWrite(Serial)

SpecAccount == InitAccount /\ [][NextAccount]_vars

\* The step answers a request (every step of SpecAccount that leaves the
\* slot free does) with an error.
AnsweredWithError ==
    reqs'.slot[Serial].pc = "idle" /\ resp'.status >= 400

\* C14: a request that ends in an error (the handler threw, and asyncHandler
\* passed the error to next()), run without another request in between,
\* leaves the users with their refresh tokens, the tweets and the
\* subscription edges as they were before the request: the answering step
\* writes nothing, and no earlier step of the request has written.
C14_ErrorLeavesStateUnchanged ==
    [][AnsweredWithError
       => (/\ users' = users /\ tweets' = tweets /\ subs' = subs
           /\ ~HasWritten(reqs.slot[Serial]))]_vars

(***************************************************************************)
(* Claims about the identity store, checked under SpecUser.                *)
(***************************************************************************)
\* The username (compared without regard to case) or the email is taken.
Taken(us, username, email) ==
    \E u \in Present(us) :
        ToLower(us[u].username) = ToLower(username) \/ us[u].email = email

\* C10: no two distinct users have the same email or usernames that are
\* equal without regard to case, and a register request (all fields given)
\* whose username or email is taken fails with Conflict (409) and creates no
\* user.
C10_UniqueIdentities ==
    /\ [](\A u, v \in Present(users) :
            u # v => /\ users[u].email # users[v].email
                     /\ ToLower(users[u].username) # ToLower(users[v].username))
    /\ [][\A email \in RegisterEmails \ {""},
             username \in RegisterNames \ {Absent, "   "},
             avatar \in Avatars :
            (/\ RegisterFind(Serial, "Name", email, username, "secret1", avatar)
             /\ Taken(users, username, email))
            => (resp'.status = 409 /\ users' = users /\ reqs' = reqs)]_vars

(***************************************************************************)
(* Interleaved requests: the steps of the requests in flight run in any    *)
(* order.                                                                  *)
(***************************************************************************)
\* The start of a behaviour of interleaved requests.
InitRace ==
    /\ users = RegisteredUsers
    /\ issued = {}
    /\ expired = {}
    /\ tokenSeq = 0
    /\ subs = {}
    /\ subSeq = 0
    /\ tweets = {}
    /\ tweetSeq = 0
    /\ likes = {}
    /\ schema = LaxSchema
    /\ resp = NoResp
    /\ prev = NoResp
    /\ reqs = NoRequests

NextToggleRace ==
    \/ \E r \in ReqIds, actor \in UserIds, channelId \in {2, MalformedId} :
          ToggleFind(r, actor, channelId)
    \/ \E r \in ReqIds : ToggleWrite(r)

SpecToggleRace == InitRace /\ [][NextToggleRace]_vars

\* C17: two toggle requests for one (subscriber, channel) pair that overlap
\* can both find no edge and both create one, leaving two edges for the pair
\* (C17_Witness); a pair has more than one edge only if toggle requests for
\* it have overlapped.
C17_DuplicateOnlyByOverlap ==
    \A subscriber \in UserIds, channel \in ChannelIds :
        Cardinality(EdgesOf(subs, subscriber, channel)) > 1
        => <<subscriber, channel>> \in reqs.raced

\* Starting from no edge, two overlapping requests for the pair (ada, bob)
\* were the only ones to create an edge and both edges are stored: each of
\* them had found no edge, and both have been answered with success.
C17_Witness ==
    /\ subSeq = 2
    /\ Cardinality(EdgesOf(subs, 1, 2)) = 2
    /\ <<1, 2>> \in reqs.raced
    /\ Quiet
    /\ resp.op = "toggle" /\ resp.success
    /\ prev.op = "toggle" /\ prev.success
    /\ Cardinality(EdgesOf(resp.before, 1, 2)) = 1

\* ada has logged in: her record holds the refresh token of that login.
InitRefreshRace ==
    /\ users = SaveRefreshToken(RegisteredUsers, 1, generateRefreshToken(1, 1))
    /\ issued = {generateRefreshToken(1, 1)}
    /\ expired = {}
    /\ tokenSeq = 1
    /\ subs = {}
    /\ subSeq = 0
    /\ tweets = {}
    /\ tweetSeq = 0
    /\ likes = {}
    /\ schema = LaxSchema
    /\ resp = NoResp
    /\ prev = NoResp
    /\ reqs = NoRequests

\* Refresh requests, and logins and logouts of ada, in any interleaving.
NextRefreshRace ==
    \/ \E r \in ReqIds, t \in Presentable : RefreshCheck(r, t)
    \/ \E r \in ReqIds : RefreshGenerate(r)
    \/ \E r \in ReqIds : RefreshSave(r)
    \/ \E r \in ReqIds : LoginFind(r, "ada", Absent, "secret1")
    \/ \E r \in ReqIds : LoginPassword(r)
    \/ \E r \in ReqIds : LoginGenerate(r)
    \/ \E r \in ReqIds : LoginSave(r)
    \/ \E r \in ReqIds : LoginAnswer(r)
    \/ logoutUser(1)

SpecRefreshRace == InitRefreshRace /\ [][NextRefreshRace]_vars

\* C18: every refresh request that has passed the comparison with the
\* stored token succeeds, whatever other requests have written since: its
\* save overwrites the stored refresh token with the one it generated, so
\* that after it no other issued token of the user is the stored one; and a
\* refresh request presenting a token that is not the stored one is
\* rejected with 401 and writes nothing.  Two requests presenting the same
\* valid token can both pass the comparison before either saves
\* (C18_Witness).
C18_LastWriteWins ==
    [][/\ \A r \in ReqIds :
            RefreshSave(r)
            => LET uid == reqs.slot[r].actor
                   mine == generateRefreshToken(uid, reqs.slot[r].made)
               IN /\ resp'.op = "refresh" /\ resp'.status = 200
                  /\ users'[uid].refreshToken = mine
                  /\ \A t \in issued \ {mine} :
                        ~TokenMatchesStored(t, users'[t.sub])
       /\ \A r \in ReqIds, t \in issued :
            (RefreshCheck(r, t) /\ t # users[t.sub].refreshToken)
            => (resp'.status = 401 /\ users' = users /\ reqs' = reqs)]_vars

\* Two requests presented ada's login token and both passed the comparison
\* before either saved; both were answered 200; the token stored is the one
\* saved last, which is the one generated first, and the token of the other
\* pair is not the stored one.
C18_Witness ==
    /\ <<1, 1>> \in reqs.raced
    /\ Quiet
    /\ tokenSeq = 3
    /\ resp.op = "refresh" /\ resp.status = 200 /\ resp.presented.n = 1
    /\ resp.accessToken.n = 2
    /\ users[1].refreshToken = generateRefreshToken(1, 2)
    /\ generateRefreshToken(1, 3) \in issued
    /\ ~AcceptedByRefresh(generateRefreshToken(1, 3))

\* Creates and deletes, and updates of the first tweet, in any interleaving.
NextDeleteRace ==
    \/ \E actor \in UserIds : createTweet(actor, "hi")
    \/ \E r \in ReqIds, actor \in UserIds,
          tweetId \in TweetIds \cup {MalformedId} :
          DeleteFind(r, actor, tweetId)
    \/ \E r \in ReqIds : DeleteWrite(r)
    \/ \E r \in ReqIds, actor \in UserIds :
          UpdateFind(r, actor, 1, " hi ")
    \/ \E r \in ReqIds : UpdateWrite(r)

SpecDeleteRace == InitRace /\ [][NextDeleteRace]_vars

\* Some stored tweet has the id.
Stored(T, tweetId) == \E t \in T : t.id = tweetId

\* C19: a delete request that has passed the owner test removes exactly its
\* tweet when the tweet is still stored, answering 200 and leaving the user
\* records and all other tweets unchanged; when the tweet is no longer
\* stored it fails with 500 and changes nothing; a delete request arriving
\* for an id no tweet has fails with 404.  After the request is answered
\* the tweet is absent, and an absent tweet never comes back, so of the
\* delete requests for one tweet at most one reports success.
C19_DeleteOnce ==
    [][/\ \A r \in ReqIds :
            DeleteWrite(r)
            => LET tweetId == reqs.slot[r].target
               IN /\ users' = users
                  /\ ~Stored(tweets', tweetId)
                  /\ IF Stored(tweets, tweetId)
                     THEN /\ resp'.status = 200 /\ resp'.success
                          /\ tweets' = {t \in tweets : t.id # tweetId}
                     ELSE /\ resp'.status = 500 /\ ~resp'.success
                          /\ tweets' = tweets
       /\ (resp'.op = "delete" /\ resp' # resp /\ resp'.success)
            => (/\ Stored(tweets, resp'.tweetId)
                /\ ~Stored(tweets', resp'.tweetId))
       /\ \A r \in ReqIds, actor \in UserIds, tweetId \in TweetIds :
            (DeleteFind(r, actor, tweetId) /\ ~Stored(tweets, tweetId))
            => (resp'.status = 404 /\ tweets' = tweets /\ reqs' = reqs)
       /\ \A tweetId \in TweetIds :
            (tweetId <= tweetSeq /\ ~Stored(tweets, tweetId))
            => ~Stored(tweets', tweetId)]_vars

\* Two delete requests of the owner for tweet 1 overlapped; the first to
\* write deleted it, the other was then answered 500; tweet 1 is absent and
\* the other tweet is still stored.
C19_Witness ==
    /\ \E actor \in UserIds : <<actor, 1>> \in reqs.raced
    /\ Quiet
    /\ resp.op = "delete" /\ resp.status = 500 /\ resp.tweetId = 1
    /\ ~Stored(tweets, 1)
    /\ Stored(tweets, 2)

====
